---------------------------- MODULE Spec2Model ----------------------------
(***************************************************************************)
(* Velra: the market-snapshot worker (backend_worker.py) and the HTTP      *)
(* reader of data.json (server.py).                                        *)
(*                                                                         *)
(* JSON values are modelled as follows.                                    *)
(*   object  : a function whose domain is a set of key strings             *)
(*   array   : a sequence, except a top-level array document or a scalar   *)
(*             standing where an object is expected, which is wrapped in   *)
(*             a one-key function ("$array" / "$str") so that it can be    *)
(*             told from an object                                         *)
(*   None    : the one-key function ("$none" :> TRUE); a string that may  *)
(*             stand where None may stand is wrapped as ("$str" :> text)   *)
(*   string "HH:MM" : the number HH*100+MM (zero padded strings compare    *)
(*             lexicographically as these numbers compare)                 *)
(*   isoformat() timestamp : the clock value in seconds                    *)
(* A file is a sequence of tokens; json.dump produces them one after the   *)
(* other and json.load accepts only a complete, well-formed sequence.      *)
(***************************************************************************)
EXTENDS Integers, Sequences, FiniteSets, TLC

(***************************************************************************)
(* Bounds of the model.                                                    *)
(***************************************************************************)
MaxGens == 2          \* calls of generate_market_data in one behaviour
MaxKills == 1         \* external kills of the worker process
MaxReads == 1         \* GET /data.json requests
MaxIdle == 2          \* clock checks that find the minute different from 0
MaxNew == 11          \* items in the longest generated livewire
WriteChunk == 4       \* tokens reaching the file per write step
ReadChunk == 5        \* tokens returned per read step
NInodes == 3          \* inodes of the directory

(***************************************************************************)
(* Program constants.                                                      *)
(***************************************************************************)
StaleAfter == 3600    \* file_age > 3600
PollSleep == 30       \* time.sleep(30)
CooldownSleep == 61   \* time.sleep(61)
WireCap == 10         \* combined_wire[:10]
schema_version == 1

(***************************************************************************)
(* JSON helpers.                                                           *)
(***************************************************************************)
EmptyObj == [q \in {} |-> 0]
None == ("$none" :> TRUE)
Str(text) == ("$str" :> text)

IsNone(v) == "$none" \in DOMAIN v
IsObject(v) == DOMAIN v \cap {"$none", "$array", "$str"} = {}

\* Python truthiness of a loaded JSON value: None, {} and [] are falsy.
Truthy(v) ==
    IF IsNone(v) THEN FALSE
    ELSE IF "$array" \in DOMAIN v THEN Len(v["$array"]) > 0
    ELSE IF "$str" \in DOMAIN v THEN v["$str"] # ""
    ELSE DOMAIN v # {}

\* dict.get(key, default)
Get(d, key, default) == IF key \in DOMAIN d THEN d[key] ELSE default

\* d[key] = value on a dict
SetItem(d, key, value) == [k \in DOMAIN d \cup {key} |-> IF k = key THEN value ELSE d[k]]

(***************************************************************************)
(* json.dump / json.load at the granularity of top-level members.          *)
(***************************************************************************)
\* fault: the last member is not written
KeyOrder_Short == <<"schema_version", "generated_at_wib", "status", "briefings", "indices">>

\* the keys of a document in the order json.dump meets them
KeyOrder == <<"schema_version", "generated_at_wib", "status", "briefings",
              "indices", "livewire">>

\* A token is a one-key function: a punctuation mark, an array element, or
\* the member "key": value of the top-level object.
Punctuation == {"{", "}", "[", "]", "el", "junk"}
Tok(t) == (t :> TRUE)
KV(key, value) == (key :> value)
El(item) == ("el" :> item)
KeyOf(t) == CHOOSE k \in DOMAIN t : TRUE
IsKV(t) == DOMAIN t \cap Punctuation = {}

RECURSIVE Members(_, _)
Members(d, i) ==
    IF i > Len(KeyOrder) THEN << >>
    ELSE (IF KeyOrder[i] \in DOMAIN d THEN <<KV(KeyOrder[i], d[KeyOrder[i]])>> ELSE << >>)
         \o Members(d, i + 1)

\* json.dump(data, f, indent=2)
Serialize(v) ==
    IF "$array" \in DOMAIN v
    THEN <<Tok("[")>> \o [n \in 1..Len(v["$array"]) |-> El(v["$array"][n])] \o <<Tok("]")>>
    ELSE <<Tok("{")>> \o Members(v, 1) \o <<Tok("}")>>

\* json.load / json.loads: [ok |-> FALSE] stands for the raised JSONDecodeError.
Parse(bytes) ==
    LET n == Len(bytes)
        mid == IF n >= 2 THEN SubSeq(bytes, 2, n - 1) ELSE << >>
        isObj == /\ n >= 2
                 /\ "{" \in DOMAIN bytes[1]
                 /\ "}" \in DOMAIN bytes[n]
                 /\ \A i \in 1..Len(mid) : IsKV(mid[i])
                 /\ \A p, q \in 1..Len(mid) : (KeyOf(mid[p]) = KeyOf(mid[q])) => (p = q)
        isArr == /\ n >= 2
                 /\ "[" \in DOMAIN bytes[1]
                 /\ "]" \in DOMAIN bytes[n]
                 /\ \A c \in 1..Len(mid) : "el" \in DOMAIN mid[c]
    IN  IF isObj
        THEN [ok |-> TRUE,
              val |-> [key \in {KeyOf(mid[a]) : a \in 1..Len(mid)} |->
                          mid[CHOOSE b \in 1..Len(mid) : key \in DOMAIN mid[b]][key]]]
        ELSE IF isArr
        THEN [ok |-> TRUE, val |-> ("$array" :> [e \in 1..Len(mid) |-> mid[e]["el"]])]
        ELSE [ok |-> FALSE, val |-> None]

(***************************************************************************)
(* Feed merger (generate_market_data, lines 91-99 and 111).                *)
(***************************************************************************)
impact_score(imp) ==
    CASE imp = "HIGH" -> 3
      [] imp = "MEDIUM" -> 2
      [] imp = "LOW" -> 1
      [] OTHER -> 0

\* fault: the components of the key exchanged
SortKey_TimeFirst(x) == <<Get(x, "time", 0), impact_score(Get(x, "impact", "LOW"))>>

\* key=lambda x: (impact_score.get(x.get("impact", "LOW"), 0), x.get("time", "00:00"))
SortKey(x) == <<impact_score(Get(x, "impact", "LOW")), Get(x, "time", 0)>>

KeyLess(a, b) == a[1] < b[1] \/ (a[1] = b[1] /\ a[2] < b[2])

\* list.sort(reverse=True) is stable: an element goes after every element
\* whose key is greater than or equal to its own.
RECURSIVE InsertDesc(_, _)
InsertDesc(x, s) ==
    IF Len(s) = 0 THEN <<x>>
    ELSE IF KeyLess(SortKey(Head(s)), SortKey(x)) THEN <<x>> \o s
    ELSE <<Head(s)>> \o InsertDesc(x, Tail(s))

RECURSIVE SortPrefix(_, _)
SortPrefix(s, n) == IF n = 0 THEN << >> ELSE InsertDesc(s[n], SortPrefix(s, n - 1))

SortDesc(s) == SortPrefix(s, Len(s))

\* fault: the slice is forgotten
Truncate_None(s) == s

\* combined_wire[:10]
Truncate(s) == SubSeq(s, 1, IF Len(s) < WireCap THEN Len(s) ELSE WireCap)

\* now_wib.strftime("%H:%M")
TimeStr(t) == ((t \div 3600) % 24) * 100 + ((t \div 60) % 60)

\* for item in new_news: item["time"] = ...
TagAll(news, t) == [i \in 1..Len(news) |-> SetItem(news[i], "time", t)]

\* fault: the old items are put first
CombinedWire_OldFirst(ai_data, current_data, now_wib) ==
    (IF Truthy(current_data) THEN Get(current_data, "livewire", << >>) ELSE << >>)
    \o TagAll(Get(ai_data, "livewire", << >>), TimeStr(now_wib))

\* new_news + old_wire
CombinedWire(ai_data, current_data, now_wib) ==
    TagAll(Get(ai_data, "livewire", << >>), TimeStr(now_wib))
    \o (IF Truthy(current_data) THEN Get(current_data, "livewire", << >>) ELSE << >>)

MergeWire(combined) == Truncate(SortDesc(combined))

\* fault: briefings and indices fall back to the prior snapshot's
FinalData_KeepPrior(ai_data, current_data, now_wib) ==
    [schema_version |-> schema_version,
     generated_at_wib |-> now_wib,
     status |-> [ok |-> TRUE, last_error |-> None, last_success_at_wib |-> now_wib],
     briefings |-> Get(ai_data, "briefings", Get(current_data, "briefings", EmptyObj)),
     indices |-> Get(ai_data, "indices", Get(current_data, "indices", EmptyObj)),
     livewire |-> MergeWire(CombinedWire(ai_data, current_data, now_wib))]

\* lines 101-112
FinalData(ai_data, current_data, now_wib) ==
    [schema_version |-> schema_version,
     generated_at_wib |-> now_wib,
     status |-> [ok |-> TRUE, last_error |-> None, last_success_at_wib |-> now_wib],
     briefings |-> Get(ai_data, "briefings", EmptyObj),
     indices |-> Get(ai_data, "indices", EmptyObj),
     livewire |-> MergeWire(CombinedWire(ai_data, current_data, now_wib))]

(***************************************************************************)
(* The try block of generate_market_data (lines 77-112) as a function of   *)
(* the outcome of the external call: [ok |-> TRUE, final |-> final_data],  *)
(* or [ok |-> FALSE, err |-> str(e)] for the exception that reaches the    *)
(* except clause.                                                          *)
(***************************************************************************)
Raise(msg) == [ok |-> FALSE, err |-> msg, final |-> None]

TryBlock(resp, current_data, now_wib) ==
    IF resp.raised THEN Raise(resp.msg)
    ELSE LET parsed == Parse(resp.text)
             ai_data == parsed.val
         IN  IF ~parsed.ok THEN Raise("JSONDecodeError: Expecting value")
             ELSE IF ~IsObject(ai_data)
               THEN Raise("AttributeError: no attribute 'get'")
             ELSE IF \E i \in 1..Len(Get(ai_data, "livewire", << >>)) :
                         ~IsObject(ai_data["livewire"][i])
               THEN Raise("TypeError: does not support item assignment")
             ELSE IF Truthy(current_data) /\ ~IsObject(current_data)
               THEN Raise("AttributeError: no attribute 'get'")
             ELSE [ok |-> TRUE, err |-> "", final |-> FinalData(ai_data, current_data, now_wib)]

(***************************************************************************)
(* The except clause (lines 117-122) as a function of the loaded document: *)
(* what is handed to atomic_write, nothing, or an exception that leaves    *)
(* generate_market_data.                                                   *)
(***************************************************************************)
HasStatusDict(d) == IsObject(d) /\ "status" \in DOMAIN d /\ IsObject(d["status"])

\* fault: the status object is replaced instead of updated
MarkFailed_Reset(d, msg) == SetItem(d, "status", [ok |-> FALSE, last_error |-> Str(msg)])

\* fault: last_error is left as it was
MarkFailed_OkOnly(d, msg) == SetItem(d, "status", SetItem(d["status"], "ok", FALSE))

\* fault: the failure stamps the document as well
MarkFailed_Touch(d, msg) ==
    SetItem(SetItem(d, "generated_at_wib", d["generated_at_wib"] + 1), "status",
            SetItem(SetItem(d["status"], "ok", FALSE), "last_error", Str(msg)))

\* lines 119-120
MarkFailed(d, msg) ==
    SetItem(d, "status", SetItem(SetItem(d["status"], "ok", FALSE), "last_error", Str(msg)))

\* fault: a status-only document is written when nothing was loaded
ExceptClause_Always(current_data, msg) ==
    IF HasStatusDict(current_data) THEN [act |-> "write", doc |-> MarkFailed(current_data, msg)]
    ELSE [act |-> "write", doc |-> [status |-> [ok |-> FALSE, last_error |-> Str(msg)]]]

ExceptClause(current_data, msg) ==
    IF ~Truthy(current_data) THEN [act |-> "none", doc |-> None]
    ELSE IF ~HasStatusDict(current_data) THEN [act |-> "raise", doc |-> None]
    ELSE [act |-> "write", doc |-> MarkFailed(current_data, msg)]

(***************************************************************************)
(* Inputs: what the external service returns, and what is on disk when     *)
(* the worker starts.                                                      *)
(***************************************************************************)
ImpactCycle == <<"HIGH", "LOW", "MEDIUM", "CRITICAL">>

\* The i-th item of the g-th generation; every fifth item has no "impact".
NewsItem(g, i) ==
    IF (i + g) % 5 = 0 THEN [headline |-> 100 * g + i]
    ELSE [headline |-> 100 * g + i, impact |-> ImpactCycle[((i + g) % 4) + 1]]

NewsList(g, n) == [i \in 1..n |-> NewsItem(g, i)]

NewCounts == {(MaxNew \div 2) + 1, MaxNew}

GoodValues(g) ==
    {[briefings |-> [global |-> g], indices |-> [USA |-> g], livewire |-> NewsList(g, n)] :
        n \in NewCounts} \cup {EmptyObj}

BadValues == {("$array" :> << >>), [livewire |-> <<Str("headline only")>>]}

NotJson == <<Tok("junk")>>

Messages == {"503 UNAVAILABLE"}

\* Seconds the external call takes: a startup generation begun at 23:59:30
\* returns at 00:00:15; a generation begun at 00:00:00 or 00:00:15 leaves
\* the worker checking the clock at 00:59:45 and 01:00:15, or at 01:00:00.
GenDurations == {45, 3494}

Responses(g) ==
    {[raised |-> TRUE, msg |-> m, text |-> << >>] : m \in Messages}
    \cup {[raised |-> FALSE, msg |-> "", text |-> t] :
            t \in {Serialize(v) : v \in GoodValues(g) \cup BadValues} \cup {NotJson}}

NoResp == [raised |-> FALSE, msg |-> "", text |-> << >>]

\* A snapshot left by an earlier run of the worker.
Snapshot0 ==
    [schema_version |-> schema_version,
     generated_at_wib |-> 0,
     status |-> [ok |-> TRUE, last_error |-> None, last_success_at_wib |-> 0],
     briefings |-> [global |-> 0],
     indices |-> [USA |-> 0],
     livewire |-> <<[headline |-> 1, impact |-> "HIGH", time |-> 900],
                    [headline |-> 2, impact |-> "MEDIUM"],
                    [headline |-> 3, impact |-> "LOW", time |-> 2300],
                    [headline |-> 4, impact |-> "LOW"]>>]

\* Documents of another origin: an object without "status", a JSON array.
NoStatusDoc == [briefings |-> [global |-> 0], livewire |-> << >>]
ArrayDoc == ("$array" :> <<[headline |-> 1]>>)

StartTimes == {86370}      \* 23:59:30

InitFiles ==
    {[present |-> FALSE, bytes |-> << >>, age |-> 0]}
    \cup {[present |-> TRUE, bytes |-> Serialize(Snapshot0), age |-> a] :
            a \in {100, StaleAfter, StaleAfter + 1}}
    \cup {[present |-> TRUE, bytes |-> b, age |-> StaleAfter + 1] :
            b \in {NotJson, Serialize(ArrayDoc)}}
    \cup {[present |-> TRUE, bytes |-> Serialize(NoStatusDoc), age |-> 100]}

(***************************************************************************)
(* State.                                                                  *)
(***************************************************************************)
VARIABLES
    now,            \* wall clock, seconds of local time
    hasKey,         \* GEMINI_API_KEY or GOOGLE_API_KEY is set
    once,           \* args.once
    dir,            \* directory: file name -> inode, 0 when the name is absent
    inodes,         \* inode -> [bytes, mtime]
    pc,             \* the worker's position
    ret,            \* where generate_market_data was called from
    current_data,   \* as returned by load_data
    now_wib,
    resp,           \* outcome of client.models.generate_content
    err,            \* str(e) in the except clause
    outcome,        \* how the generation in progress went
    wdoc,           \* atomic_write's argument
    wfd,            \* inode of the file atomic_write holds open
    rpc,            \* the request handler's position
    rfd,            \* inode of the file the handler holds open
    rbuf,           \* response body read so far
    rstatus,        \* HTTP status of the response
    gens,           \* calls of generate_market_data so far
    runGens,        \* calls of generate_market_data by this process
    kills,
    reads,
    idle,           \* clock checks so far that found the minute different from 0
    versions,       \* the file contents data.json held at Init or was given by a completed write
    lastWritten,    \* argument of the last atomic_write that completed, None before
    before,         \* both files as they were when generate_market_data was entered
    startFile,      \* data.json as the startup check of this process found it
    leftover,       \* data.json.tmp existed when this process started
    sched,          \* this process: clock checks made, time of the last check that called
                    \* generate_market_data, time the startup generation returned (-1: none)
    lastSuccess     \* time and document of the most recent successful generation

fsVars == <<dir, inodes>>
envVars == <<hasKey, once>>
genVars == <<ret, current_data, now_wib, resp, err, outcome, wdoc>>
readerVars == <<rpc, rfd, rbuf, rstatus, reads>>
vars == <<now, hasKey, once, dir, inodes, pc, ret, current_data, now_wib, resp, err,
          outcome, wdoc, wfd, rpc, rfd, rbuf, rstatus, gens, runGens, kills, reads,
          idle, versions, lastWritten, before, startFile, leftover, sched, lastSuccess>>
histVars == <<versions, lastWritten, before, startFile, leftover, sched, lastSuccess>>

DATA_FILE == "data.json"
\* fault: the document is written straight to the canonical path
TempFile_InPlace == DATA_FILE
\* line 23: DATA_FILE + ".tmp"
TempFile == "data.json.tmp"

FreeInode == [bytes |-> << >>, mtime |-> 0]
Refs(d, rf, wf) == {d[DATA_FILE], d[TempFile], rf, wf} \ {0}
Gc(ino, refs) == [i \in 1..NInodes |-> IF i \in refs THEN ino[i] ELSE FreeInode]
Alloc(refs) == CHOOSE i \in 1..NInodes : i \notin refs /\ \A j \in 1..(i - 1) : j \in refs

Exists(name) == dir[name] # 0
AbsentFile == [present |-> FALSE, bytes |-> << >>, mtime |-> 0]
FileOf(d, ino, name) ==
    IF d[name] = 0 THEN AbsentFile
    ELSE [present |-> TRUE, bytes |-> ino[d[name]].bytes, mtime |-> ino[d[name]].mtime]
Files == [name \in {DATA_FILE, TempFile} |-> FileOf(dir, inodes, name)]
NoFiles == [name \in {DATA_FILE, TempFile} |-> AbsentFile]
Minute(t) == (t \div 60) % 60
NoSched == [checks |-> 0, trigAt |-> -1, startupRet |-> -1]

Init ==
    /\ now \in StartTimes
    /\ hasKey \in BOOLEAN
    /\ once \in BOOLEAN
    /\ \E f \in InitFiles :
        /\ dir = (DATA_FILE :> (IF f.present THEN 1 ELSE 0)) @@ (TempFile :> 0)
        /\ inodes = [i \in 1..NInodes |->
                        IF i = 1 /\ f.present THEN [bytes |-> f.bytes, mtime |-> now - f.age]
                        ELSE FreeInode]
        /\ versions = IF f.present THEN {f.bytes} ELSE {}
        /\ lastSuccess = IF f.present /\ f.bytes = Serialize(Snapshot0)
                         THEN [at |-> Snapshot0["generated_at_wib"], doc |-> Snapshot0]
                         ELSE [at |-> -1, doc |-> None]
    /\ pc = "start"
    /\ ret = ""
    /\ current_data = None
    /\ now_wib = 0
    /\ resp = NoResp
    /\ err = ""
    /\ outcome = ""
    /\ wdoc = None
    /\ wfd = 0
    /\ rpc = "idle"
    /\ rfd = 0
    /\ rbuf = << >>
    /\ rstatus = 0
    /\ gens = 0
    /\ runGens = 0
    /\ kills = 0
    /\ reads = 0
    /\ idle = 0
    /\ lastWritten = None
    /\ before = NoFiles
    /\ startFile = [present |-> FALSE, age |-> 0]
    /\ leftover = FALSE
    /\ sched = NoSched

(***************************************************************************)
(* backend_worker.py: the main program.                                    *)
(***************************************************************************)
\* time.time() - os.path.getmtime(DATA_FILE)
FileAge == now - inodes[dir[DATA_FILE]].mtime

\* fault: >= in place of >
NeedsStartupGen_Ge == ~Exists(DATA_FILE) \/ (Exists(DATA_FILE) /\ FileAge >= StaleAfter)

\* lines 130-137
NeedsStartupGen == ~Exists(DATA_FILE) \/ (Exists(DATA_FILE) /\ FileAge > StaleAfter)

\* Entering generate_market_data from `from`.
EnterGenerate(from) ==
    /\ gens < MaxGens
    /\ pc' = "g_client"
    /\ ret' = from
    /\ gens' = gens + 1
    /\ runGens' = runGens + 1
    /\ before' = Files

\* lines 129-139: the startup check
Startup ==
    /\ pc = "start"
    /\ IF NeedsStartupGen
       THEN EnterGenerate("startup")
       ELSE pc' = "once_chk" /\ UNCHANGED <<ret, gens, runGens, before>>
    /\ startFile' = [present |-> Exists(DATA_FILE),
                     age |-> IF Exists(DATA_FILE) THEN FileAge ELSE 0]
    /\ UNCHANGED <<now, envVars, fsVars, current_data, now_wib, resp, err, outcome, wdoc,
                   wfd, readerVars, kills, idle, versions, lastWritten, leftover, sched,
                   lastSuccess>>

\* fault: args.once is not looked at
OnceCheck_Ignored ==
    /\ pc = "once_chk"
    /\ pc' = "loop"
    /\ UNCHANGED <<now, envVars, fsVars, genVars, wfd, readerVars, gens, runGens, kills, idle,
                   histVars>>

\* lines 141-142
OnceCheck ==
    /\ pc = "once_chk"
    /\ pc' = IF once THEN "exited" ELSE "loop"
    /\ UNCHANGED <<now, envVars, fsVars, genVars, wfd, readerVars, gens, runGens, kills, idle,
                   histVars>>

\* fault: the trigger also requires the second to be 0
Poll_Second0 ==
    /\ pc = "loop"
    /\ IF now % 3600 = 0
       THEN EnterGenerate("loop") /\ UNCHANGED idle
       ELSE /\ idle < MaxIdle
            /\ idle' = idle + 1
            /\ pc' = "sleep30"
            /\ UNCHANGED <<ret, gens, runGens, before>>
    /\ sched' = [sched EXCEPT !.checks = @ + 1,
                              !.trigAt = IF now % 3600 = 0 THEN now ELSE @]
    /\ UNCHANGED <<now, envVars, fsVars, current_data, now_wib, resp, err, outcome, wdoc,
                   wfd, readerVars, kills, versions, lastWritten, startFile, leftover,
                   lastSuccess>>

\* lines 146-148: one clock check of the loop
Poll ==
    /\ pc = "loop"
    /\ IF Minute(now) = 0
       THEN EnterGenerate("loop") /\ UNCHANGED idle
       ELSE /\ idle < MaxIdle
            /\ idle' = idle + 1
            /\ pc' = "sleep30"
            /\ UNCHANGED <<ret, gens, runGens, before>>
    /\ sched' = [sched EXCEPT !.checks = @ + 1,
                              !.trigAt = IF Minute(now) = 0 THEN now ELSE @]
    /\ UNCHANGED <<now, envVars, fsVars, current_data, now_wib, resp, err, outcome, wdoc,
                   wfd, readerVars, kills, versions, lastWritten, startFile, leftover,
                   lastSuccess>>

\* fault: no cooldown after the generation
Sleep61_Skipped ==
    /\ pc = "sleep61"
    /\ now' = now
    /\ pc' = "sleep30"
    /\ UNCHANGED <<envVars, fsVars, genVars, wfd, readerVars, gens, runGens, kills, idle, histVars>>

\* line 149
Sleep61 ==
    /\ pc = "sleep61"
    /\ now' = now + CooldownSleep
    /\ pc' = "sleep30"
    /\ UNCHANGED <<envVars, fsVars, genVars, wfd, readerVars, gens, runGens, kills, idle, histVars>>

\* line 150
Sleep30 ==
    /\ pc = "sleep30"
    /\ now' = now + PollSleep
    /\ pc' = "loop"
    /\ UNCHANGED <<envVars, fsVars, genVars, wfd, readerVars, gens, runGens, kills, idle, histVars>>

(***************************************************************************)
(* generate_market_data                                                    *)
(***************************************************************************)
\* fault: a client is built although no key is set
get_api_client_Any == TRUE

\* lines 15-20: a client, unless neither environment variable is set
get_api_client == hasKey

\* lines 38-39
GetApiClient ==
    /\ pc = "g_client"
    /\ IF get_api_client
       THEN pc' = "g_load" /\ UNCHANGED outcome
       ELSE pc' = "g_ret" /\ outcome' = "skipped"
    /\ UNCHANGED <<now, envVars, fsVars, ret, current_data, now_wib, resp, err, wdoc, wfd,
                   readerVars, gens, runGens, kills, idle, histVars>>

\* fault: the text of a file that does not parse is returned
load_data_Raw ==
    IF Exists(DATA_FILE)
    THEN LET parsed == Parse(inodes[dir[DATA_FILE]].bytes)
         IN  IF parsed.ok THEN parsed.val ELSE Str("junk")
    ELSE None

\* lines 28-35
load_data ==
    IF Exists(DATA_FILE)
    THEN LET parsed == Parse(inodes[dir[DATA_FILE]].bytes)
         IN  IF parsed.ok THEN parsed.val ELSE None
    ELSE None

\* lines 41-42
LoadData ==
    /\ pc = "g_load"
    /\ current_data' = load_data
    /\ now_wib' = now
    /\ pc' = "g_call"
    /\ UNCHANGED <<now, envVars, fsVars, ret, resp, err, outcome, wdoc, wfd, readerVars,
                   gens, runGens, kills, idle, histVars>>

\* lines 77-112: the external call, which takes d seconds, and the rest of
\* the try block up to the call of atomic_write
GenerateContent ==
    /\ pc = "g_call"
    /\ \E r \in Responses(gens), d \in GenDurations :
        LET t == TryBlock(r, current_data, now_wib)
        IN  /\ resp' = r
            /\ now' = now + d
            /\ IF t.ok
               THEN /\ wdoc' = t.final
                    /\ outcome' = "success"
                    /\ pc' = "aw_open"
                    /\ UNCHANGED err
               ELSE /\ err' = t.err
                    /\ outcome' = "failure"
                    /\ pc' = "g_except"
                    /\ UNCHANGED wdoc
    /\ UNCHANGED <<envVars, fsVars, ret, current_data, now_wib, wfd, readerVars, gens,
                   runGens, kills, idle, histVars>>

\* lines 117-122
Except ==
    /\ pc = "g_except"
    /\ LET e == ExceptClause(current_data, err)
       IN  /\ pc' = CASE e.act = "write" -> "aw_open"
                      [] e.act = "raise" -> "crashed"
                      [] OTHER -> "g_ret"
           /\ wdoc' = e.doc
    /\ UNCHANGED <<now, envVars, fsVars, ret, current_data, now_wib, resp, err, outcome,
                   wfd, readerVars, gens, runGens, kills, idle, histVars>>

\* fault: the cooldown follows the startup generation as well
GenReturn_Cooldown ==
    /\ pc = "g_ret"
    /\ pc' = "sleep61"
    /\ ret' = ""
    /\ current_data' = None
    /\ now_wib' = 0
    /\ resp' = NoResp
    /\ err' = ""
    /\ outcome' = ""
    /\ wdoc' = None
    /\ before' = NoFiles
    /\ sched' = [sched EXCEPT !.startupRet = IF ret = "startup" THEN now ELSE @]
    /\ UNCHANGED <<now, envVars, fsVars, wfd, readerVars, gens, runGens, kills, idle,
                   versions, lastWritten, startFile, leftover, lastSuccess>>

\* return from generate_market_data to its caller (line 139 or line 148)
GenReturn ==
    /\ pc = "g_ret"
    /\ pc' = IF ret = "startup" THEN "once_chk" ELSE "sleep61"
    /\ ret' = ""
    /\ current_data' = None
    /\ now_wib' = 0
    /\ resp' = NoResp
    /\ err' = ""
    /\ outcome' = ""
    /\ wdoc' = None
    /\ before' = NoFiles
    /\ sched' = [sched EXCEPT !.startupRet = IF ret = "startup" THEN now ELSE @]
    /\ UNCHANGED <<now, envVars, fsVars, wfd, readerVars, gens, runGens, kills, idle,
                   versions, lastWritten, startFile, leftover, lastSuccess>>

(***************************************************************************)
(* atomic_write                                                            *)
(***************************************************************************)
\* line 24: open(temp_file, "w") creates the file or truncates it
AwOpen ==
    /\ pc = "aw_open"
    /\ LET refs == Refs(dir, rfd, wfd)
           ino == IF Exists(TempFile) THEN dir[TempFile] ELSE Alloc(refs)
       IN  /\ Exists(TempFile) \/ \E i \in 1..NInodes : i \notin refs
           /\ dir' = [dir EXCEPT ![TempFile] = ino]
           /\ inodes' = [inodes EXCEPT ![ino] = [bytes |-> << >>, mtime |-> now]]
           /\ wfd' = ino
    /\ pc' = "aw_write"
    /\ UNCHANGED <<now, envVars, genVars, readerVars, gens, runGens, kills, idle, histVars>>

\* line 25: json.dump writes the document piece by piece; leaving the with
\* block closes the file
AwWrite ==
    /\ pc = "aw_write"
    /\ LET all == Serialize(wdoc)
           have == Len(inodes[wfd].bytes)
           upto == IF have + WriteChunk < Len(all) THEN have + WriteChunk ELSE Len(all)
       IN  /\ inodes' = [inodes EXCEPT ![wfd] =
                            [bytes |-> @.bytes \o SubSeq(all, have + 1, upto), mtime |-> now]]
           /\ IF upto = Len(all)
              THEN pc' = "aw_rename" /\ wfd' = 0
              ELSE pc' = "aw_write" /\ UNCHANGED wfd
    /\ UNCHANGED <<now, envVars, dir, genVars, readerVars, gens, runGens, kills, idle, histVars>>

\* fault: the arguments of os.replace exchanged
Replace_Swapped(d, src, dst) == IF src = dst THEN d ELSE [d EXCEPT ![src] = d[dst], ![dst] = 0]

\* os.replace(src, dst)
Replace(d, src, dst) == IF src = dst THEN d ELSE [d EXCEPT ![dst] = d[src], ![src] = 0]

\* line 26
AwRename ==
    /\ pc = "aw_rename"
    /\ dir' = Replace(dir, TempFile, DATA_FILE)
    /\ inodes' = Gc(inodes, Refs(dir', rfd, wfd))
    /\ versions' = versions \cup {Serialize(wdoc)}
    /\ lastWritten' = wdoc
    /\ lastSuccess' = IF outcome = "success" THEN [at |-> now_wib, doc |-> wdoc]
                      ELSE lastSuccess
    /\ pc' = "g_ret"
    /\ UNCHANGED <<now, envVars, genVars, wfd, readerVars, gens, runGens, kills, idle,
                   before, startFile, leftover, sched>>

(***************************************************************************)
(* The process is killed by a signal, and started again.                   *)
(***************************************************************************)
Terminal == {"exited", "crashed", "dead"}

Kill ==
    /\ pc \notin Terminal
    /\ kills < MaxKills
    /\ kills' = kills + 1
    /\ UNCHANGED idle
    /\ pc' = "dead"
    /\ wfd' = 0
    /\ ret' = ""
    /\ current_data' = None
    /\ now_wib' = 0
    /\ resp' = NoResp
    /\ err' = ""
    /\ outcome' = ""
    /\ wdoc' = None
    /\ before' = NoFiles
    /\ UNCHANGED <<now, envVars, fsVars, readerVars, gens, runGens, versions, lastWritten,
                   startFile, leftover, sched, lastSuccess>>

Restart ==
    /\ pc = "dead"
    /\ pc' = "start"
    /\ runGens' = 0
    /\ leftover' = Exists(TempFile)
    /\ sched' = NoSched
    /\ UNCHANGED <<now, envVars, fsVars, genVars, wfd, readerVars, gens, kills, idle,
                   versions, lastWritten, before, startFile, lastSuccess>>

(***************************************************************************)
(* server.py: GET /data.json                                               *)
(***************************************************************************)
\* lines 43-48: the jsonify(...) body of the 404 answer
MissingFileBody ==
    <<Tok("{"),
      KV("error", Str("Data file not found on server")),
      KV("missing_file", TRUE),
      KV("path_checked", Str("data.json")),
      KV("suggestion", Str("Wait for backend_worker.py to generate the initial snapshot.")),
      Tok("}")>>

\* fault: the handler does not look whether the file exists
DataExists_NoCheck ==
    /\ rpc = "idle"
    /\ reads < MaxReads
    /\ reads' = reads + 1
    /\ rpc' = "send"
    /\ UNCHANGED <<now, envVars, fsVars, pc, genVars, wfd, rfd, rbuf, rstatus, gens, runGens,
                   kills, idle, histVars>>

\* lines 41-48
DataExists ==
    /\ rpc = "idle"
    /\ reads < MaxReads
    /\ reads' = reads + 1
    /\ IF Exists(DATA_FILE)
       THEN rpc' = "send" /\ UNCHANGED <<rstatus, rbuf>>
       ELSE rpc' = "done" /\ rstatus' = 404 /\ rbuf' = MissingFileBody
    /\ UNCHANGED <<now, envVars, fsVars, pc, genVars, wfd, rfd, gens, runGens, kills, idle,
                   histVars>>

\* line 50: send_from_directory opens the file
DataOpen ==
    /\ rpc = "send"
    /\ IF Exists(DATA_FILE)
       THEN rfd' = dir[DATA_FILE] /\ rpc' = "read" /\ UNCHANGED rstatus
       ELSE rfd' = 0 /\ rpc' = "done" /\ rstatus' = 404
    /\ UNCHANGED <<now, envVars, fsVars, pc, genVars, wfd, rbuf, reads, gens, runGens,
                   kills, idle, histVars>>

\* the body is read from the open file until end of file
DataRead ==
    /\ rpc = "read"
    /\ LET bytes == inodes[rfd].bytes
           have == Len(rbuf)
           upto == IF have + ReadChunk < Len(bytes) THEN have + ReadChunk ELSE Len(bytes)
       IN  IF have < Len(bytes)
           THEN /\ rbuf' = rbuf \o SubSeq(bytes, have + 1, upto)
                /\ UNCHANGED <<rpc, rfd, rstatus, inodes>>
           ELSE /\ rpc' = "done"
                /\ rstatus' = 200
                /\ rfd' = 0
                /\ inodes' = Gc(inodes, Refs(dir, 0, wfd))
                /\ UNCHANGED rbuf
    /\ UNCHANGED <<now, envVars, dir, pc, genVars, wfd, reads, gens, runGens, kills, idle,
                   histVars>>

\* the response has been sent
DataDone ==
    /\ rpc = "done"
    /\ rpc' = "idle"
    /\ rbuf' = << >>
    /\ rstatus' = 0
    /\ UNCHANGED <<now, envVars, fsVars, pc, genVars, wfd, rfd, reads, gens, runGens, kills, idle,
                   histVars>>

Worker ==
    \/ Startup \/ OnceCheck \/ Poll \/ Sleep61 \/ Sleep30
    \/ GetApiClient \/ LoadData \/ GenerateContent \/ Except \/ GenReturn
    \/ AwOpen \/ AwWrite \/ AwRename

Server == DataExists \/ DataOpen \/ DataRead \/ DataDone

Next == Worker \/ Server \/ Kill \/ Restart

Spec == Init /\ [][Next]_vars

\* The worker runs whenever it can take a step; the external call returns.
FairSpec == Spec /\ WF_vars(Worker)

(***************************************************************************)
(* Properties.                                                             *)
(***************************************************************************)
DataBytes == inodes[dir[DATA_FILE]].bytes
Persisted == Parse(DataBytes).val
GenFinished(how) == pc = "g_ret" /\ outcome = how

\* C1: a GET /data.json that is answered with the file returns, whatever
\* steps of atomic_write it was interleaved with, a complete document that
\* data.json held: the one before a write or the one after it, never a
\* truncated or mixed one.
C1_ReadSeesWholeVersion ==
    (rpc = "done" /\ rstatus = 200) => rbuf \in versions

\* a request that overlapped a completed write and returned the previous snapshot
C1_Witness ==
    /\ rpc = "done"
    /\ rstatus = 200
    /\ rbuf \in versions
    /\ rbuf # DataBytes
    /\ Parse(rbuf).ok

\* C2: whenever the worker is killed, and at every other moment, data.json
\* is absent if nothing was ever there, and otherwise holds the complete
\* document of the last write whose rename completed (or what it held at the
\* start if no write completed); this stays so after a restart that finds a
\* leftover data.json.tmp.
C2_KillSafe ==
    IF IsNone(lastWritten)
    THEN IF versions = {} THEN ~Exists(DATA_FILE)
         ELSE Exists(DATA_FILE) /\ versions = {DataBytes}
    ELSE /\ Exists(DATA_FILE)
         /\ DataBytes = Serialize(lastWritten)
         /\ Parse(DataBytes).ok
         /\ Persisted = lastWritten

\* killed between the writes to data.json.tmp and the rename, restarted with
\* the leftover file, and a later generation completed
C2_Witness ==
    /\ kills > 0
    /\ leftover
    /\ GenFinished("success")
    /\ Exists(DATA_FILE)
    /\ Persisted = wdoc

\* C3: after a failed generation that had loaded a prior snapshot, the file
\* holds that snapshot with status.ok = false and status.last_error = the
\* non-empty failure message, every other field being as it was loaded.
C3_FailureKeepsContent ==
    (GenFinished("failure") /\ HasStatusDict(current_data)) =>
        /\ Exists(DATA_FILE)
        /\ Parse(DataBytes).ok
        /\ DOMAIN Persisted = DOMAIN current_data
        /\ \A key \in DOMAIN current_data \ {"status"} : Persisted[key] = current_data[key]
        /\ DOMAIN Persisted["status"] = DOMAIN current_data["status"] \cup {"ok", "last_error"}
        /\ \A key \in DOMAIN current_data["status"] \ {"ok", "last_error"} :
               Persisted["status"][key] = current_data["status"][key]
        /\ Persisted["status"]["ok"] = FALSE
        /\ err # ""
        /\ Persisted["status"]["last_error"] = Str(err)

\* a response that does not parse, after a snapshot whose status was ok
C3_Witness ==
    /\ GenFinished("failure")
    /\ HasStatusDict(current_data)
    /\ current_data["status"]["ok"] = TRUE
    /\ ~resp.raised
    /\ Persisted["briefings"] = current_data["briefings"]
    /\ Persisted["status"]["ok"] = FALSE

\* C4: after a failed generation that could load no prior snapshot,
\* data.json and data.json.tmp are exactly as they were when the attempt began.
C4_FirstFailureWritesNothing ==
    (GenFinished("failure") /\ IsNone(current_data)) => Files = before

\* the failure with an unparseable data.json and a leftover data.json.tmp
C4_Witness ==
    /\ GenFinished("failure")
    /\ IsNone(current_data)
    /\ Files = before
    /\ Exists(TempFile)

\* C5: a failed generation in the periodic loop never ends the process.
C5_LoopSurvivesFailure == ~(pc = "crashed" /\ ret = "loop")

\* C6: the livewire of the persisted snapshot has at most 10 entries.
C6_WireCapped ==
    (Exists(DATA_FILE) /\ Parse(DataBytes).ok /\ IsObject(Persisted)
        /\ "livewire" \in DOMAIN Persisted) => Len(Persisted["livewire"]) <= 10

\* more than 10 items were merged and 10 were kept
C6_Witness ==
    /\ GenFinished("success")
    /\ Len(CombinedWire(Parse(resp.text).val, current_data, now_wib)) > 10
    /\ Len(Persisted["livewire"]) = 10
    /\ Truthy(current_data)


\* The ranking as the feed merger is specified: HIGH 3, MEDIUM 2, LOW 1,
\* any other impact value 0 (an item without impact counts as LOW), then the
\* time string (an item without time counts as "00:00").
RankScore(x) ==
    IF "impact" \notin DOMAIN x THEN 1
    ELSE IF x["impact"] = "HIGH" THEN 3
    ELSE IF x["impact"] = "MEDIUM" THEN 2
    ELSE IF x["impact"] = "LOW" THEN 1
    ELSE 0
RankTime(x) == IF "time" \in DOMAIN x THEN x["time"] ELSE 0
NotBelow(x, y) ==
    RankScore(x) > RankScore(y) \/ (RankScore(x) = RankScore(y) /\ RankTime(x) >= RankTime(y))
Count(s, x) == Cardinality({i \in 1..Len(s) : s[i] = x})
IsTopOf(w, c) ==
    /\ Len(w) = IF Len(c) < 10 THEN Len(c) ELSE 10
    /\ \A i, j \in 1..Len(w) : i < j => NotBelow(w[i], w[j])
    /\ \A i \in 1..Len(w) : Count(w, w[i]) <= Count(c, w[i])
    /\ \A i \in 1..Len(c) :
          Count(w, c[i]) < Count(c, c[i]) => \A j \in 1..Len(w) : NotBelow(w[j], c[i])

ItemA == [headline |-> 1, impact |-> "HIGH", time |-> 900]
ItemB == [headline |-> 2, impact |-> "LOW", time |-> 2300]
ItemC == [headline |-> 3, impact |-> "HIGH", time |-> 1000]

\* C7: the livewire a successful generation writes is the first 10 entries
\* of new items ++ old items in descending order of (impact score, time):
\* it is in that order, it is made of items of the combined list, and no
\* item left out ranks above an item kept; A(HIGH,09:00), B(LOW,23:00),
\* C(HIGH,10:00) come out as C, A, B.
C7_WireRanked ==
    /\ MergeWire(<<ItemA, ItemB, ItemC>>) = <<ItemC, ItemA, ItemB>>
    /\ GenFinished("success") =>
          IsTopOf(Persisted["livewire"],
                  CombinedWire(Parse(resp.text).val, current_data, now_wib))

\* a merge of new and old items in which an item of unrecognized impact was
\* kept behind a LOW one and two items of equal impact differ in time
C7_Witness ==
    /\ GenFinished("success")
    /\ Truthy(current_data)
    /\ LET w == Persisted["livewire"]
       IN  /\ \E i, j \in 1..Len(w) :
                i < j /\ RankScore(w[i]) = 1 /\ "impact" \in DOMAIN w[i] /\ RankScore(w[j]) = 0
           /\ \E i, j \in 1..Len(w) :
                i < j /\ RankScore(w[i]) = RankScore(w[j]) /\ RankTime(w[i]) > RankTime(w[j])

\* C8: the startup check calls generate_market_data once when data.json is
\* missing or older than 3600 seconds, and not at all when its age is at
\* most 3600 seconds.
C8_StartupTrigger ==
    /\ pc = "once_chk" =>
          runGens = IF startFile.present /\ startFile.age <= 3600 THEN 0 ELSE 1
    /\ ret = "startup" =>
          runGens = 1 /\ (~startFile.present \/ startFile.age > 3600)

\* the startup generation for a file 3601 seconds old has returned
C8_Witness ==
    /\ pc = "once_chk"
    /\ startFile.present
    /\ startFile.age = 3601
    /\ runGens = 1

\* C9: with --once the process calls generate_market_data at most once,
\* never reaches the clock check of the loop, and terminates.
C9_OnceTerminates ==
    /\ [](once => (pc \notin {"loop", "sleep30", "sleep61"} /\ ret # "loop" /\ runGens <= 1))
    /\ [](once => <>(pc \in Terminal))

\* a --once process that exited after its one generation
C9_Witness == once /\ pc = "exited" /\ runGens = 1 /\ ~IsNone(lastWritten)

\* C10: without a credential generate_market_data returns before the
\* external call: nothing is requested, no file is written, and both files
\* are as they were.
C10_NoKeySkips ==
    /\ ~hasKey => /\ pc \notin {"g_load", "g_call", "g_except", "aw_open", "aw_write",
                                "aw_rename", "crashed"}
                  /\ resp = NoResp
                  /\ IsNone(lastWritten)
                  /\ ~Exists(TempFile)
    /\ GenFinished("skipped") => ~hasKey /\ Files = before

\* a skipped generation with a snapshot on disk
C10_Witness ==
    /\ GenFinished("skipped")
    /\ Exists(DATA_FILE)
    /\ HasStatusDict(Persisted)
    /\ Files = before

C12_MissingFile404 ==
    /\ [][(rpc = "idle" /\ rpc' # "idle") =>
            IF Exists(DATA_FILE) THEN rpc' = "send"
            ELSE /\ rpc' = "done"
                 /\ rstatus' = 404
                 /\ Parse(rbuf').ok
                 /\ Parse(rbuf').val["missing_file"] = TRUE]_vars
    /\ [](rpc = "done" =>
            \/ rstatus = 404 /\ Parse(rbuf).ok /\ Parse(rbuf).val["missing_file"] = TRUE
            \/ rstatus = 200 /\ rbuf \in versions)
    /\ [][readerVars' # readerVars => Files' = Files]_vars

\* a request answered 404 before the first snapshot was written
C12_Witness ==
    /\ rpc = "done"
    /\ rstatus = 404
    /\ ~Exists(DATA_FILE)
    /\ Parse(rbuf).val["missing_file"] = TRUE
    /\ versions = {}

HourOf(t) == t \div 3600

\* C13: a worker that sleeps its 30 seconds across the start of minute 0
\* wakes inside that minute; a clock check made in minute 0 calls
\* generate_market_data at once; and a worker at its clock check in minute 0
\* does get to call it (unless it is killed first).
C13_TopOfHourGenerates ==
    /\ [][(pc = "sleep30" /\ pc' = "loop" /\ HourOf(now') > HourOf(now)) =>
            (Minute(now') = 0 /\ now' - 3600 * HourOf(now') < 60)]_vars
    /\ [][(pc = "loop" /\ Minute(now) = 0 /\ pc' # pc /\ pc' # "dead") =>
            (pc' = "g_client" /\ ret' = "loop" /\ gens' = gens + 1 /\ now' = now)]_vars
    /\ ((pc = "loop" /\ Minute(now) = 0 /\ gens < MaxGens) ~> (ret = "loop" \/ pc = "dead"))

\* an idle worker checked the clock at 00:59:45 and at 01:00:15, and the
\* second check started a generation
C13_Witness ==
    /\ pc = "g_client"
    /\ ret = "loop"
    /\ sched.startupRet = -1
    /\ sched.trigAt = now
    /\ now % 3600 = 15
    /\ sched.checks >= 2

\* C14: at every clock check after a check that called generate_market_data,
\* the clock has left minute 0 of the hour of that call, whether the
\* generation took no time (skipped), seconds, or most of the hour.
C14_CooldownNoRetrigger ==
    (pc = "loop" /\ sched.trigAt >= 0) =>
        /\ now >= 3600 * HourOf(sched.trigAt) + 60
        /\ now >= sched.trigAt + 91
        /\ (Minute(now) # 0 \/ HourOf(now) # HourOf(sched.trigAt))

\* the next check after a generation that took no time: 91 seconds later
C14_Witness ==
    /\ pc = "loop"
    /\ sched.trigAt >= 0
    /\ Minute(sched.trigAt) = 0
    /\ now = sched.trigAt + 91
    /\ Minute(now) = 1

\* C15: a successful generation writes a document whose status is
\* (ok = true, last_error = null), whose generated_at_wib and
\* status.last_success_at_wib are the time taken at the start of this
\* generation, and whose briefings and indices are the response's (an empty
\* mapping when the response has no such key), whatever the prior snapshot
\* held; of the prior snapshot only livewire items can appear, in livewire.
C15_SuccessReplacesAll ==
    GenFinished("success") =>
        LET ai_data == Parse(resp.text).val
        IN  /\ Exists(DATA_FILE)
            /\ Persisted = wdoc
            /\ Persisted["status"]["ok"] = TRUE
            /\ Persisted["status"]["last_error"] = None
            /\ Persisted["generated_at_wib"] = now_wib
            /\ Persisted["status"]["last_success_at_wib"] = now_wib
            /\ now_wib <= now
            /\ Persisted["briefings"] =
                   (IF "briefings" \in DOMAIN ai_data THEN ai_data["briefings"] ELSE EmptyObj)
            /\ Persisted["indices"] =
                   (IF "indices" \in DOMAIN ai_data THEN ai_data["indices"] ELSE EmptyObj)
            /\ DOMAIN Persisted = {"schema_version", "generated_at_wib", "status",
                                   "briefings", "indices", "livewire"}
            /\ \A i \in 1..Len(Persisted["livewire"]) :
                   \/ \E n \in 1..Len(Get(ai_data, "livewire", << >>)) :
                         Persisted["livewire"][i] =
                             SetItem(ai_data["livewire"][n], "time", TimeStr(now_wib))
                   \/ /\ Truthy(current_data)
                      /\ \E o \in 1..Len(Get(current_data, "livewire", << >>)) :
                            Persisted["livewire"][i] = current_data["livewire"][o]

\* a response without briefings and indices replaced a failed snapshot that
\* had both; the prior livewire items were carried over
C15_Witness ==
    /\ GenFinished("success")
    /\ HasStatusDict(current_data)
    /\ current_data["status"]["ok"] = FALSE
    /\ current_data["briefings"] # EmptyObj
    /\ Persisted["briefings"] = EmptyObj
    /\ Persisted["indices"] = EmptyObj
    /\ Persisted["status"]["ok"] = TRUE
    /\ Persisted["livewire"] = current_data["livewire"]
    /\ Len(Persisted["livewire"]) > 0
    /\ Persisted["generated_at_wib"] # current_data["generated_at_wib"]

Unloadable(f) == ~f.present \/ ~Parse(f.bytes).ok
AfterLoad ==
    /\ pc \in {"g_call", "g_except", "aw_open", "aw_write", "aw_rename", "g_ret", "crashed"}
    /\ outcome # "skipped"

\* C16: when data.json is missing or does not parse, load_data returns None
\* and nothing is raised; the generation then does what it does on a first
\* run: on success the written livewire is the ranked, truncated list of
\* the new items alone, on failure both files stay as they were.
C16_UnparseableIsAbsent ==
    (AfterLoad /\ Unloadable(before[DATA_FILE])) =>
        /\ IsNone(current_data)
        /\ pc # "crashed"
        /\ GenFinished("failure") => Files = before
        /\ GenFinished("success") =>
              LET ai_data == Parse(resp.text).val
                  news == Get(ai_data, "livewire", << >>)
                  wire == Persisted["livewire"]
              IN  /\ Persisted = FinalData(ai_data, None, now_wib)
                  /\ Len(wire) = (IF Len(news) < 10 THEN Len(news) ELSE 10)
                  /\ \A i \in 1..Len(wire) :
                        \E n \in 1..Len(news) :
                            wire[i] = SetItem(news[n], "time", TimeStr(now_wib))

\* a successful generation over a data.json that held no JSON: ten of the
\* eleven new items were written
C16_Witness ==
    /\ GenFinished("success")
    /\ before[DATA_FILE].present
    /\ ~Parse(before[DATA_FILE].bytes).ok
    /\ IsNone(current_data)
    /\ Len(Get(Parse(resp.text).val, "livewire", << >>)) = 11
    /\ Len(Persisted["livewire"]) = 10

SameRank(x, y) == RankScore(x) = RankScore(y) /\ RankTime(x) = RankTime(y)
InSeq(s, x) == \E i \in 1..Len(s) : s[i] = x
Pos(s, x) == CHOOSE i \in 1..Len(s) : s[i] = x
\* x comes before y in the list new items ++ old items
Precedes(new, old, x, y) ==
    \/ InSeq(new, x) /\ InSeq(old, y)
    \/ InSeq(new, x) /\ InSeq(new, y) /\ Pos(new, x) < Pos(new, y)
    \/ InSeq(old, x) /\ InSeq(old, y) /\ Pos(old, x) < Pos(old, y)

TieNew(n) == [headline |-> 100 + n, impact |-> "HIGH", time |-> 1000]
TieOld == [headline |-> 1, impact |-> "HIGH", time |-> 1000]

\* C17: in the livewire a successful generation writes, two items of equal
\* (impact score, time) stand in the order they have in new items ++ old
\* items: a new one before an old one, items of one source in their
\* original order; and an item left out by the truncation never precedes,
\* in that list, an equally ranked item that was kept. Ten new items and
\* one old item, all of one rank, leave the ten new items (the two fixed
\* examples do not depend on the state and are evaluated at the start).
C17_TiesKeepOrder ==
    /\ pc = "start" =>
          /\ MergeWire([n \in 1..10 |-> TieNew(n)] \o <<TieOld>>) = [n \in 1..10 |-> TieNew(n)]
          /\ MergeWire(<<TieOld>> \o [n \in 1..10 |-> TieNew(n)])
                 = <<TieOld>> \o [n \in 1..9 |-> TieNew(n)]
    /\ GenFinished("success") =>
          LET new == [i \in 1..Len(Get(Parse(resp.text).val, "livewire", << >>)) |->
                         SetItem(Parse(resp.text).val["livewire"][i], "time", TimeStr(now_wib))]
              old == IF Truthy(current_data) THEN Get(current_data, "livewire", << >>)
                     ELSE << >>
              wire == Persisted["livewire"]
          IN  /\ \A i, j \in 1..Len(wire) :
                    (i < j /\ SameRank(wire[i], wire[j])) =>
                        Precedes(new, old, wire[i], wire[j])
              /\ \A i \in 1..Len(wire), k \in 1..(Len(new) + Len(old)) :
                    LET x == (new \o old)[k]
                    IN  (~InSeq(wire, x) /\ SameRank(wire[i], x)) =>
                            Precedes(new, old, wire[i], x)

\* a new LOW item of 00:00 was kept in front of nothing but the cut, and
\* the old LOW item without time (counted as 00:00) was left out; a new and
\* an old MEDIUM item of equal rank were both kept, the new one first
C17_Witness ==
    /\ GenFinished("success")
    /\ Truthy(current_data)
    /\ LET new == TagAll(Get(Parse(resp.text).val, "livewire", << >>), TimeStr(now_wib))
           old == current_data["livewire"]
           wire == Persisted["livewire"]
       IN  /\ Len(wire) = 10
           /\ \E i \in 1..Len(wire), o \in 1..Len(old) :
                 /\ InSeq(new, wire[i])
                 /\ ~InSeq(wire, old[o])
                 /\ SameRank(wire[i], old[o])
           /\ \E i, j \in 1..Len(wire) :
                 /\ i < j
                 /\ InSeq(new, wire[i])
                 /\ InSeq(old, wire[j])
                 /\ SameRank(wire[i], wire[j])

OkIffNoError(d) == (d["status"]["ok"] = TRUE) <=> IsNone(d["status"]["last_error"])

\* C18: every document the worker hands to atomic_write, and every document
\* it has written, has status.ok = true exactly when status.last_error is
\* null: a success writes (true, null), a failure writes (false, message).
C18_OkIffNoError ==
    /\ pc \in {"aw_open", "aw_write", "aw_rename"} => OkIffNoError(wdoc)
    /\ ~IsNone(lastWritten) => OkIffNoError(lastWritten) /\ Persisted = lastWritten
    /\ GenFinished("success") =>
          lastWritten["status"]["ok"] = TRUE /\ lastWritten["status"]["last_error"] = None
    /\ (GenFinished("failure") /\ Truthy(current_data)) =>
          /\ lastWritten["status"]["ok"] = FALSE
          /\ lastWritten["status"]["last_error"] = Str(err)

\* a second failure in a row, written over the snapshot of the first
C18_Witness ==
    /\ GenFinished("failure")
    /\ HasStatusDict(current_data)
    /\ current_data["status"]["ok"] = FALSE
    /\ ~IsNone(current_data["status"]["last_error"])
    /\ lastWritten["status"]["ok"] = FALSE
    /\ lastWritten["status"]["last_error"] = Str(err)
    /\ gens = 2

Content == {"schema_version", "briefings", "indices", "livewire"}

\* C19: in every document the worker has written, generated_at_wib equals
\* status.last_success_at_wib, both are the time of the most recent
\* successful generation, and schema_version, briefings, indices and
\* livewire are those that generation wrote; a failed generation leaves
\* all of them as loaded.
C19_StampsOfLastSuccess ==
    /\ ~IsNone(lastWritten) =>
          /\ lastSuccess.at >= 0
          /\ lastWritten["generated_at_wib"] = lastSuccess.at
          /\ lastWritten["status"]["last_success_at_wib"] = lastSuccess.at
          /\ \A key \in Content : lastWritten[key] = lastSuccess.doc[key]
    /\ (GenFinished("failure") /\ Truthy(current_data)) =>
          /\ lastWritten["generated_at_wib"] = current_data["generated_at_wib"]
          /\ lastWritten["status"]["last_success_at_wib"] =
                 current_data["status"]["last_success_at_wib"]
    /\ GenFinished("success") => lastSuccess.at = now_wib /\ lastSuccess.doc = lastWritten

\* a success at 23:59:30 followed by a failure: the snapshot still carries
\* the stamps and the livewire of the success
C19_Witness ==
    /\ GenFinished("failure")
    /\ gens = 2
    /\ lastSuccess.at = 86370
    /\ lastWritten["status"]["ok"] = FALSE
    /\ lastWritten["generated_at_wib"] = 86370
    /\ lastWritten["status"]["last_success_at_wib"] = 86370
    /\ now_wib > 86370
    /\ Len(lastWritten["livewire"]) = 10

\* C20: nothing is slept between the return of the startup generation and
\* the first clock check of the loop; when that return falls in minute 0,
\* the first check calls generate_market_data again at that same moment.
C20_StartupGenNoCooldown ==
    /\ []((pc \in {"once_chk", "loop"} /\ sched.startupRet >= 0 /\ sched.checks = 0) =>
            now = sched.startupRet)
    /\ [][(/\ pc = "loop"
           /\ sched.checks = 0
           /\ sched.startupRet = now
           /\ Minute(now) = 0
           /\ pc' # pc
           /\ pc' # "dead") =>
            (pc' = "g_client" /\ ret' = "loop" /\ runGens' = 2 /\ now' = now)]_vars

\* the startup generation ran from 23:59:30 to 00:00:15 and wrote a
\* snapshot; the second generation was started at 00:00:15
C20_Witness ==
    /\ pc = "g_client"
    /\ ret = "loop"
    /\ runGens = 2
    /\ sched.checks = 1
    /\ sched.startupRet = now
    /\ sched.trigAt = now
    /\ now % 3600 = 15
    /\ ~IsNone(lastWritten)
    /\ lastWritten["generated_at_wib"] = now - 45

=============================================================================
